---- MODULE Spec2Model ----
\* Parallel copy engine of xcp: tree_walker, the work queue, the copy workers,
\* the per-file copy state machine (CopyHandle) and the ChannelUpdater sink.
\*   libxcp/src/operations.rs       CopyHandle, ChannelUpdater, tree_walker
\*   libxcp/src/drivers/parfile.rs  Driver::copy_all, copy_worker
EXTENDS Integers, Sequences, FiniteSets, TLC

\* ---------------------------------------------------------------- bounds
\* config.block_size and config.num_workers() of the checked configurations.
BlockSize == 2
NumWorkers == 2
\* How many times in one copy the byte-copy primitive may transfer nothing.
MaxZeros == 1

Workers == 1..NumWorkers

\* ---------------------------------------------------------------- paths
\* A path is a sequence of components; <<>> is the directory that holds dest.
Parent(p) == SubSeq(p, 1, Len(p) - 1)

Prefixes(p) == {SubSeq(p, 1, k) : k \in 1..Len(p)}

\* Path::join
join(base, rel) == base \o rel

\* operations.rs empty_path
empty_path(path) == path = <<>>

\* ---------------------------------------------------------------- file system
\* The destination side is a function from the paths that have a directory
\* entry to the kind of that entry:
\*   "dir", "file", "special", "link" (a symlink whose referent exists and is
\*   not a directory), "dlink" (a dangling symlink).
IsDir(f, p) == p \in DOMAIN f /\ f[p] = "dir"

\* Path::exists follows symbolic links: a dangling link does not "exist".
Exists(f, p) == p \in DOMAIN f /\ f[p] # "dlink"

Put(f, p, k) == [q \in DOMAIN f \cup {p} |-> IF q = p THEN k ELSE f[q]]

Remove(f, p) == [q \in DOMAIN f \ {p} |-> f[q]]

\* std::fs::create_dir_all: creates the directory and every missing ancestor.
create_dir_all_noop(f, p) == [ok |-> TRUE, fs |-> f]

create_dir_all(f, p) ==
    IF \A q \in Prefixes(p) : q \notin DOMAIN f \/ IsDir(f, q)
    THEN [ok |-> TRUE,
          fs |-> [q \in DOMAIN f \cup Prefixes(p) |->
                     IF q \in Prefixes(p) THEN "dir" ELSE f[q]]]
    ELSE [ok |-> FALSE, fs |-> f]

\* File::create (open O_CREAT|O_TRUNC, following links) and allocate_file.
\* Through a symlink the referent is created or truncated; a FIFO or a
\* directory cannot be created over.
FileCreate(f, p) ==
    IF ~IsDir(f, Parent(p)) THEN [ok |-> FALSE, fs |-> f]
    ELSE IF p \notin DOMAIN f THEN [ok |-> TRUE, fs |-> Put(f, p, "file")]
    ELSE IF f[p] = "file" THEN [ok |-> TRUE, fs |-> f]
    ELSE IF f[p] \in {"link", "dlink"} THEN [ok |-> TRUE, fs |-> Put(f, p, "link")]
    ELSE [ok |-> FALSE, fs |-> f]

\* std::os::unix::fs::symlink: fails when the path has an entry already.
Symlink(f, p, k) ==
    IF IsDir(f, Parent(p)) /\ p \notin DOMAIN f
    THEN [ok |-> TRUE, fs |-> Put(f, p, k)]
    ELSE [ok |-> FALSE, fs |-> f]

\* std::fs::remove_file: unlinks a non-directory entry (a link itself).
RemoveFile(f, p) ==
    IF p \in DOMAIN f /\ f[p] # "dir"
    THEN [ok |-> TRUE, fs |-> Remove(f, p)]
    ELSE [ok |-> FALSE, fs |-> f]

\* libfs::copy_node (mknod): fails when the path has an entry already.
CopyNode(f, p) ==
    IF IsDir(f, Parent(p)) /\ p \notin DOMAIN f
    THEN [ok |-> TRUE, fs |-> Put(f, p, "special")]
    ELSE [ok |-> FALSE, fs |-> f]

\* ---------------------------------------------------------------- sources
\* A source is what WalkDir yields for it, in pre-order: each entry has the
\* path relative to the source, the kind from symlink_metadata, and for a
\* regular file its bytes (TRUE: allocated data, FALSE: part of a hole).
Entry(rel, kind, data) == [rel |-> rel, kind |-> kind, data |-> data]

SrcTree ==
    [path |-> <<"s">>, ignore |-> {},
     entries |-> << Entry(<<>>, "Dir", <<>>),
                    Entry(<<"a">>, "File", <<TRUE, TRUE, TRUE>>),
                    Entry(<<"b">>, "Dir", <<>>),
                    Entry(<<"b", "c">>, "File", <<TRUE, FALSE, TRUE>>),
                    Entry(<<"l">>, "Symlink", <<>>) >>]

SrcLinks ==
    [path |-> <<"k">>, ignore |-> {},
     entries |-> << Entry(<<>>, "Dir", <<>>),
                    Entry(<<"c">>, "File", <<TRUE, FALSE, TRUE>>),
                    Entry(<<"l">>, "Symlink", <<>>) >>]

SrcMixed ==
    [path |-> <<"t">>, ignore |-> {<<"g">>},
     entries |-> << Entry(<<>>, "Dir", <<>>),
                    Entry(<<"f">>, "Fifo", <<>>),
                    Entry(<<"g">>, "Dir", <<>>),
                    Entry(<<"g", "h">>, "File", <<TRUE>>),
                    Entry(<<"a">>, "File", <<TRUE, TRUE>>),
                    Entry(<<"x">>, "Other", <<>>) >>]

SrcFileA ==
    [path |-> <<"a">>, ignore |-> {},
     entries |-> << Entry(<<>>, "File", <<TRUE, TRUE>>) >>]

SrcFileB ==
    [path |-> <<"u", "b">>, ignore |-> {},
     entries |-> << Entry(<<>>, "File", <<TRUE, TRUE, FALSE>>) >>]

SrcFifo ==
    [path |-> <<"u", "f">>, ignore |-> {},
     entries |-> << Entry(<<>>, "Fifo", <<>>) >>]

SrcSymlink ==
    [path |-> <<"u", "l">>, ignore |-> {},
     entries |-> << Entry(<<>>, "Symlink", <<>>) >>]

SrcDir ==
    [path |-> <<"u">>, ignore |-> {},
     entries |-> << Entry(<<>>, "Dir", <<>>) >>]

SrcBlock ==
    [path |-> <<"u", "x">>, ignore |-> {},
     entries |-> << Entry(<<>>, "Other", <<>>) >>]

Dest == <<"d">>

NoDest == (<<>> :> "dir")

EmptyDest == (<<>> :> "dir") @@ (Dest :> "dir")

Input(sources, fs0) == [sources |-> sources, fs0 |-> fs0]

\* The checked inputs: source lists with the state of the destination side
\* before copy_all starts.
Inputs ==
    { Input(<<SrcTree>>, EmptyDest),
      Input(<<SrcTree>>, NoDest),
      Input(<<SrcMixed>>, EmptyDest),
      Input(<<SrcFileA, SrcFileB>>, EmptyDest),
      Input(<<SrcFileA, SrcFileB>>, NoDest),
      Input(<<SrcFileA, SrcFifo>>, EmptyDest @@ (<<"d", "a">> :> "file")),
      Input(<<SrcFileA>>, EmptyDest @@ (<<"d", "a">> :> "dlink")),
      Input(<<SrcFifo, SrcFileB>>, EmptyDest @@ (<<"d", "f">> :> "special")) }

Configs ==
    [no_clobber : BOOLEAN, no_target_directory : BOOLEAN,
     reflink : {"Always", "Auto", "Never"}, no_perms : BOOLEAN, fsync : BOOLEAN]

\* What the filesystem facade may do: zero, copy_file_bytes may transfer no
\* byte; perms_fail, copy_permissions returns an error.
Envs == [zero : BOOLEAN, perms_fail : BOOLEAN]

Setup(nc, ntd, rl, np, fsy, z, pf) ==
    [config |-> [no_clobber |-> nc, no_target_directory |-> ntd, reflink |-> rl,
                 no_perms |-> np, fsync |-> fsy],
     env |-> [zero |-> z, perms_fail |-> pf]]

\* The checked configurations of copy_all: every walker and reflink setting
\* with permissions copied, fsync on and a well-behaved facade, and the plain
\* walker settings with finalization switched off, with a failing permission
\* copy, and with a byte copy that may transfer nothing.
Setups ==
    {Setup(nc, ntd, rl, FALSE, TRUE, FALSE, FALSE) :
        nc \in BOOLEAN, ntd \in BOOLEAN, rl \in {"Always", "Auto", "Never"}}
    \cup {Setup(FALSE, FALSE, "Auto", TRUE, FALSE, FALSE, FALSE),
          Setup(FALSE, FALSE, "Always", FALSE, TRUE, FALSE, TRUE),
          Setup(FALSE, FALSE, "Never", FALSE, TRUE, TRUE, FALSE)}

\* paths::ignore_filter under WalkDir::filter_entry: an ignored entry is
\* skipped together with everything below it.
Ignored(src, rel) == \E q \in Prefixes(rel) : q \in src.ignore

Walk(src) == SelectSeq(src.entries, LAMBDA e : ~Ignored(src, e.rel))

\* ---------------------------------------------------------------- sparse files
Min(S) == CHOOSE x \in S : \A y \in S : x <= y

probably_sparse(data) == \E i \in 1..Len(data) : ~data[i]

\* libfs::next_sparse_segments: offsets of the next data run at or after pos
\* and of the hole that ends it; (len, len) when no data is left.
next_sparse_segments(data, pos) ==
    LET len == Len(data)
        next_data == Min({i \in pos..(len - 1) : data[i + 1]} \cup {len})
        next_hole == Min({i \in next_data..(len - 1) : ~data[i + 1]} \cup {len})
    IN  <<next_data, next_hole>>

DataBytes(data) == Cardinality({i \in 1..Len(data) : data[i]})

\* ---------------------------------------------------------------- copy handle
\* copy_bytes: the size of the next request.
bytes_to_copy(len, written, bsize) ==
    IF len - written < bsize THEN len - written ELSE bsize

\* libfs::copy_file_bytes returns the bytes actually transferred, which may
\* be fewer than requested.
Transfers(want) == 1..want

\* With a facade that may transfer nothing, 0 is a possible count as well.
TransfersOf(stall, want) == IF stall THEN 0..want ELSE Transfers(want)

\* copy_bytes: the count announced after a transfer.
CopiedRequested(bytes, want) == want

CopiedAmount(bytes, want) == bytes

\* try_reflink: "true" and "false" are Ok(true) and Ok(false).
try_reflink_fallback(mode, worked) ==
    IF mode = "Never" THEN "false" ELSE IF worked THEN "true" ELSE "false"

try_reflink(mode, worked) ==
    IF mode \in {"Always", "Auto"}
    THEN IF worked THEN "true"
         ELSE IF mode = "Always" THEN "ReflinkFailed"
         ELSE "false"
    ELSE "false"

\* Whether try_reflink issues the reflink call, and so what it can observe.
ReflinkOutcomes(mode) == IF mode = "Never" THEN {FALSE} ELSE BOOLEAN

reflink_skipped(mode) == FALSE

\* try_reflink: the modes in which the reflink call is made.
reflink_attempted(mode) == mode \in {"Always", "Auto"}

finalise_copy_through(cfg, e) ==
    [perms |-> IF cfg.no_perms THEN "skipped"
               ELSE IF e.perms_fail THEN "failed" ELSE "ok",
     synced |-> cfg.fsync]

\* finalise_copy, run by Drop: copy_permissions unless no_perms, then sync if
\* fsync; the ? after copy_permissions returns before the sync.
finalise_copy(cfg, e) ==
    LET perms == IF cfg.no_perms THEN "skipped"
                 ELSE IF e.perms_fail THEN "failed" ELSE "ok"
    IN  [perms |-> perms, synced |-> cfg.fsync /\ perms # "failed"]

\* ---------------------------------------------------------------- sink
Update(type, n, tag) == [type |-> type, n |-> n, tag |-> tag]

\* ChannelUpdater keeps chan_rx next to chan_tx for its whole life, so the
\* channel never loses its last receiver while the sink is in use.
UpdaterHoldsRx == TRUE

Disconnected(obsRx) == ~UpdaterHoldsRx /\ ~obsRx

ForwardNever(prev_written, bytes, bsize) ==
    (prev_written \div bsize) > ((prev_written + bytes) \div bsize)

ForwardAlways(prev_written, bytes, bsize) ==
    ((prev_written + bytes) \div bsize) >= (prev_written \div bsize)

\* ChannelUpdater::send, the threshold test on the cumulative counter.
Forward(prev_written, bytes, bsize) ==
    ((prev_written + bytes) \div bsize) > (prev_written \div bsize)

\* ChannelUpdater::send on sink sk = [chan, sent, other]; ok is FALSE for Err.
\* other counts the calls made with an update that is not Copied.
send(sk, update, obsRx) ==
    IF update.type = "Copied"
    THEN LET prev_written == sk.sent
             counted == [sk EXCEPT !.sent = prev_written + update.n]
         IN  IF Forward(prev_written, update.n, BlockSize)
             THEN IF Disconnected(obsRx)
                  THEN [ok |-> FALSE, sink |-> counted]
                  ELSE [ok |-> TRUE,
                        sink |-> [counted EXCEPT !.chan = Append(@, update)]]
             ELSE [ok |-> TRUE, sink |-> counted]
    ELSE IF Disconnected(obsRx)
         THEN [ok |-> FALSE, sink |-> [sk EXCEPT !.other = @ + 1]]
         ELSE [ok |-> TRUE, sink |-> [sk EXCEPT !.other = @ + 1,
                                                !.chan = Append(@, update)]]

\* ---------------------------------------------------------------- state
VARIABLES
    config,      \* the shared, immutable Config
    env,         \* what the filesystem facade may do in this run
    input,       \* sources and the destination side before copy_all
    fs,          \* the destination side now
    modified,    \* paths a create, truncate, remove, mknod, symlink or mkdir changed
    walker,      \* tree_walker's position and result
    ops,         \* every Operation sent to the work queue, by tag <<source, entry>>
    queue,       \* the work channel: tags of the operations not yet received
    wrk,         \* per worker: position in copy_worker and the open CopyHandle
    hist,        \* per Copy operation: what copy_file did
    sink,        \* ChannelUpdater: chan (everything sent into chan_tx), sent
    observerRx,  \* the observer still holds its clone of chan_rx
    joined,      \* copy_all: workers joined so far
    result       \* copy_all: "none" while running, then "ok" or "err"

vars == <<config, env, input, fs, modified, walker, ops, queue, wrk, hist, sink,
          observerRx, joined, result>>

Idle == [pc |-> "recv", op |-> <<>>, written |-> 0, len |-> 0, pos |-> 0, hole |-> 0,
         why |-> "none"]

NoHist == [sum |-> 0, calls |-> 0, short |-> FALSE, path |-> "none", res |-> "none",
           declined |-> FALSE, tried |-> FALSE, zeros |-> 0, dropped |-> FALSE,
           perms |-> "none", synced |-> FALSE]

Start ==
    /\ fs = input.fs0
    /\ modified = {}
    /\ walker = [pc |-> "source", src |-> 1, ent |-> 1, bases |-> <<>>, why |-> "none"]
    /\ ops = <<>>
    /\ queue = <<>>
    /\ wrk = [w \in Workers |-> Idle]
    /\ hist = <<>>
    /\ sink = [chan |-> <<>>, sent |-> 0, other |-> 0]
    /\ observerRx = TRUE
    /\ joined = 0
    /\ result = "none"

Init ==
    /\ \E s \in Setups : config = s.config /\ env = s.env
    /\ input \in Inputs
    /\ Start

\* ---------------------------------------------------------------- walker
Source == input.sources[walker.src]

CurEntry == Walk(Source)[walker.ent]

\* tree_walker: the destination of the current entry.
TargetAt(s, e) ==
    LET path == Walk(input.sources[s])[e].rel
    IN  IF ~empty_path(path) THEN join(walker.bases[s], path) ELSE walker.bases[s]

Target == TargetAt(walker.src, walker.ent)

Tag == <<walker.src, walker.ent>>

\* The source file of a Copy operation.
FileOf(tag) == Walk(input.sources[tag[1]])[tag[2]]

\* tree_walker: target_base of a source, from dest.exists() when its turn comes.
target_base(f, cfg, source) ==
    IF Exists(f, Dest) /\ ~cfg.no_target_directory
    THEN join(Dest, <<source.path[Len(source.path)]>>)
    ELSE Dest

\* tree_walker: the no_clobber test on the computed destination.
NoClobberHit(cfg, f, target) == cfg.no_clobber /\ Exists(f, target)

\* The work channel has a receiver while copy_all holds work_rx or a worker
\* still runs with its clone.
WorkRxAlive == result = "none" \/ \E w \in Workers : wrk[w].pc \notin {"ok", "err"}

\* A sender of the work queue that outlives the walker.
WorkTxKept == TRUE

\* Whether work_tx, moved into the walker's closure, is still alive.
WalkerRunning == walker.pc \notin {"ok", "err"}

\* The walker moves to the next entry, or to the next source after the last.
Advance ==
    IF walker.ent < Len(Walk(Source))
    THEN [walker EXCEPT !.pc = "entry", !.ent = @ + 1]
    ELSE [walker EXCEPT !.pc = "source", !.src = @ + 1, !.ent = 1]

Fail(why) == [walker EXCEPT !.pc = "err", !.why = why]

OpKind(kind) ==
    IF kind = "File" THEN "Copy" ELSE IF kind = "Symlink" THEN "Link" ELSE "Special"

\* work_tx.send(Operation::...)?
Enqueue(next) ==
    IF WorkRxAlive
    THEN /\ ops' = Put(ops, Tag, [kind |-> OpKind(CurEntry.kind), to |-> Target])
         /\ hist' = Put(hist, Tag, NoHist)
         /\ queue' = Append(queue, Tag)
         /\ walker' = next
    ELSE /\ walker' = Fail("send")
         /\ UNCHANGED <<ops, hist, queue>>

\* stats.send(StatusUpdate::Size(meta.len()))?
SendSize(next) ==
    LET r == send(sink, Update("Size", Len(CurEntry.data), Tag), observerRx)
    IN  /\ sink' = r.sink
        /\ walker' = IF r.ok THEN next ELSE Fail("send")

file_steps_swapped == <<"copy", "size">>

\* tree_walker, FileType::File: the Size update, then the Copy operation.
file_steps == <<"size", "copy">>

FileStep(k, next) ==
    IF file_steps[k] = "size"
    THEN SendSize(next) /\ UNCHANGED <<ops, hist, queue>>
    ELSE Enqueue(next) /\ UNCHANGED sink

\* for source in sources: target_base and the ignore rules of the next source.
WalkerSource ==
    /\ walker.pc = "source"
    /\ walker.src <= Len(input.sources)
    /\ walker' = [walker EXCEPT
                     !.bases = Append(@, target_base(fs, config, Source)),
                     !.pc = IF Walk(Source) = <<>> THEN "source" ELSE "entry",
                     !.src = IF Walk(Source) = <<>> THEN @ + 1 ELSE @,
                     !.ent = 1]
    /\ UNCHANGED <<config, env, input, fs, modified, ops, queue, wrk, hist, sink,
                   observerRx, joined, result>>

\* Ok(()) after the last source; work_tx is dropped with the frame.
WalkerReturn ==
    /\ walker.pc = "source"
    /\ walker.src > Len(input.sources)
    /\ walker' = [walker EXCEPT !.pc = "ok"]
    /\ UNCHANGED <<config, env, input, fs, modified, ops, queue, wrk, hist, sink,
                   observerRx, joined, result>>

\* One entry of the walk: destination, no_clobber test, dispatch on the kind.
WalkerEntry ==
    /\ walker.pc = "entry"
    /\ IF NoClobberHit(config, fs, Target)
       THEN LET r == send(sink, Update("Error", 0, Tag), observerRx)
            IN  /\ sink' = r.sink
                /\ walker' = Fail(IF r.ok THEN "EarlyShutdown" ELSE "send")
                /\ UNCHANGED <<fs, modified, ops, hist, queue>>
       ELSE CASE CurEntry.kind = "File" ->
                   /\ FileStep(1, [walker EXCEPT !.pc = "file2"])
                   /\ UNCHANGED <<fs, modified>>
              [] CurEntry.kind = "Symlink" ->
                   /\ Enqueue(Advance)
                   /\ UNCHANGED <<fs, modified, sink>>
              [] CurEntry.kind = "Dir" ->
                   LET r == create_dir_all(fs, Target)
                   IN  /\ fs' = r.fs
                       /\ modified' = modified \cup (DOMAIN r.fs \ DOMAIN fs)
                       /\ walker' = IF r.ok THEN Advance ELSE Fail("io")
                       /\ UNCHANGED <<ops, hist, queue, sink>>
              [] CurEntry.kind \in {"Socket", "Char", "Fifo"} ->
                   /\ Enqueue(Advance)
                   /\ UNCHANGED <<fs, modified, sink>>
              [] OTHER ->
                   /\ walker' = Fail("UnknownFileType")
                   /\ UNCHANGED <<fs, modified, ops, hist, queue, sink>>
    /\ UNCHANGED <<config, env, input, wrk, observerRx, joined, result>>

\* FileType::File, second statement.
WalkerFile2 ==
    /\ walker.pc = "file2"
    /\ FileStep(2, Advance)
    /\ UNCHANGED <<config, env, input, fs, modified, wrk, observerRx, joined, result>>

\* ---------------------------------------------------------------- workers
Cur(w) == wrk[w].op

Data(w) == FileOf(Cur(w)).data

To(w) == ops[Cur(w)].to

\* The handle is released and the worker takes the next operation.
NextOp(w) == [wrk EXCEPT ![w] = Idle]

Done(w, how) == [hist EXCEPT ![Cur(w)].res = how]

\* Whether the next copy_file_bytes call of copy t may transfer nothing: the
\* facade does so for one file of a run and at most MaxZeros times.
MayStall(t) ==
    /\ env.zero
    /\ hist[t].zeros < MaxZeros
    /\ \A u \in DOMAIN hist \ {t} : hist[u].zeros = 0

\* copy_file has returned and the handle goes out of scope: Drop runs
\* finalise_copy, whose own error is logged and changes nothing else.
Release(h, t) ==
    [h EXCEPT ![t].dropped = TRUE,
              ![t].perms = finalise_copy(config, env).perms,
              ![t].synced = finalise_copy(config, env).synced]

\* for op in work: the next operation of the queue.
WorkerRecv(w) ==
    /\ wrk[w].pc = "recv"
    /\ queue # <<>>
    /\ queue' = Tail(queue)
    /\ wrk' = [wrk EXCEPT ![w].op = Head(queue),
                          ![w].pc = CASE ops[Head(queue)].kind = "Copy" -> "new"
                                      [] ops[Head(queue)].kind = "Link" -> "link"
                                      [] OTHER -> "special"]
    /\ UNCHANGED <<config, env, input, fs, modified, walker, ops, hist, sink,
                   observerRx, joined, result>>

\* The queue is empty and its sender is gone: the worker returns Ok(()).
WorkerEnd(w) ==
    /\ wrk[w].pc = "recv"
    /\ queue = <<>>
    /\ ~WalkerRunning
    /\ wrk' = [wrk EXCEPT ![w].pc = "ok"]
    /\ UNCHANGED <<config, env, input, fs, modified, walker, ops, queue, hist, sink,
                   observerRx, joined, result>>

\* CopyHandle::new: open the source, create the destination, allocate.
CopyNew(w) ==
    /\ wrk[w].pc = "new"
    /\ LET r == FileCreate(fs, To(w))
       IN  /\ fs' = r.fs
           /\ modified' = IF r.ok THEN modified \cup {To(w)} ELSE modified
           /\ wrk' = [wrk EXCEPT ![w].pc = IF r.ok THEN "reflink" ELSE "fail"]
           /\ hist' = IF r.ok THEN hist ELSE Done(w, "io")
    /\ UNCHANGED <<config, env, input, walker, ops, queue, sink, observerRx,
                   joined, result>>

\* copy_file up to the choice of the strategy: try_reflink, probably_sparse.
CopyFile(w) ==
    /\ wrk[w].pc = "reflink"
    /\ \E worked \in ReflinkOutcomes(config.reflink) :
         LET r == try_reflink(config.reflink, worked)
             declined == config.reflink # "Never" /\ ~worked
             tried == reflink_attempted(config.reflink)
         IN  CASE r = "true" ->
                    /\ hist' = Release([hist EXCEPT ![Cur(w)].res = "ok",
                                                    ![Cur(w)].path = "reflink",
                                                    ![Cur(w)].tried = tried],
                                        Cur(w))
                    /\ wrk' = NextOp(w)
               [] r = "false" /\ probably_sparse(Data(w)) ->
                    /\ hist' = [hist EXCEPT ![Cur(w)].path = "sparse",
                                            ![Cur(w)].tried = tried,
                                            ![Cur(w)].declined = declined]
                    /\ wrk' = [wrk EXCEPT ![w].pc = "sparse", ![w].pos = 0]
               [] r = "false" /\ ~probably_sparse(Data(w)) ->
                    /\ hist' = [hist EXCEPT ![Cur(w)].path = "dense",
                                            ![Cur(w)].tried = tried,
                                            ![Cur(w)].declined = declined]
                    /\ wrk' = [wrk EXCEPT ![w].pc = "bytes", ![w].written = 0,
                                          ![w].len = Len(Data(w))]
               [] OTHER ->
                    /\ hist' = Release([hist EXCEPT ![Cur(w)].declined = declined,
                                                    ![Cur(w)].tried = tried,
                                                    ![Cur(w)].res = r],
                                        Cur(w))
                    /\ wrk' = [wrk EXCEPT ![w].pc = "fail"]
    /\ UNCHANGED <<config, env, input, fs, modified, walker, ops, queue, sink,
                   observerRx, joined, result>>

\* copy_sparse: one turn of while pos < len, up to the call of copy_bytes.
CopySparse(w) ==
    /\ wrk[w].pc = "sparse"
    /\ IF wrk[w].pos < Len(Data(w))
       THEN LET seg == next_sparse_segments(Data(w), wrk[w].pos)
            IN  /\ wrk' = [wrk EXCEPT ![w].pc = "bytes", ![w].written = 0,
                                      ![w].len = seg[2] - seg[1], ![w].hole = seg[2]]
                /\ hist' = hist
       ELSE /\ hist' = Release(Done(w, "ok"), Cur(w))
            /\ wrk' = NextOp(w)
    /\ UNCHANGED <<config, env, input, fs, modified, walker, ops, queue, sink,
                   observerRx, joined, result>>

\* copy_bytes: one turn of while written < len, or the return after the last.
CopyBytes(w) ==
    /\ wrk[w].pc = "bytes"
    /\ IF wrk[w].written < wrk[w].len
       THEN \E bytes \in TransfersOf(MayStall(Cur(w)),
                                      bytes_to_copy(wrk[w].len, wrk[w].written,
                                                    BlockSize)) :
              LET want == bytes_to_copy(wrk[w].len, wrk[w].written, BlockSize)
                  n == CopiedAmount(bytes, want)
                  r == send(sink, Update("Copied", n, Cur(w)), observerRx)
                  h == [hist EXCEPT ![Cur(w)].sum = @ + n,
                                    ![Cur(w)].calls = @ + 1,
                                    ![Cur(w)].short = @ \/ bytes < want,
                                    ![Cur(w)].zeros = IF bytes = 0 THEN @ + 1 ELSE @,
                                    ![Cur(w)].res = IF r.ok THEN @ ELSE "send"]
              IN  /\ sink' = r.sink
                  /\ hist' = IF r.ok THEN h ELSE Release(h, Cur(w))
                  /\ wrk' = IF r.ok
                            THEN [wrk EXCEPT ![w].written = @ + bytes]
                            ELSE [wrk EXCEPT ![w].pc = "fail"]
       ELSE /\ sink' = sink
            /\ IF hist[Cur(w)].path = "sparse"
               THEN /\ wrk' = [wrk EXCEPT ![w].pc = "sparse", ![w].pos = wrk[w].hole]
                    /\ hist' = hist
               ELSE /\ hist' = Release(Done(w, "ok"), Cur(w))
                    /\ wrk' = NextOp(w)
    /\ UNCHANGED <<config, env, input, fs, modified, walker, ops, queue, observerRx,
                   joined, result>>

\* copy_worker, Err(e) of a Copy: the Error update, then return Err(e).
CopyFail(w) ==
    /\ wrk[w].pc = "fail"
    /\ LET r == send(sink, Update("Error", 0, Cur(w)), observerRx)
       IN  sink' = r.sink
    /\ wrk' = [wrk EXCEPT ![w].pc = "err", ![w].why = hist[Cur(w)].res]
    /\ UNCHANGED <<config, env, input, fs, modified, walker, ops, queue, hist,
                   observerRx, joined, result>>

\* Operation::Link: symlink, its result dropped. Whether the new link has a
\* referent at its place in the destination is the environment's.
DoLink(w) ==
    /\ wrk[w].pc = "link"
    /\ \E k \in {"link", "dlink"} :
         LET r == Symlink(fs, To(w), k)
         IN  /\ fs' = r.fs
             /\ modified' = IF r.ok THEN modified \cup {To(w)} ELSE modified
             /\ r.ok \/ k = "link"
    /\ wrk' = NextOp(w)
    /\ UNCHANGED <<config, env, input, walker, ops, queue, hist, sink, observerRx,
                   joined, result>>

\* Operation::Special: exists / no_clobber / remove_file, then copy_node.
DoSpecial(w) ==
    /\ wrk[w].pc = "special"
    /\ LET to == To(w)
           rm == RemoveFile(fs, to)
           f1 == IF Exists(fs, to) THEN rm.fs ELSE fs
           mk == CopyNode(f1, to)
       IN  IF Exists(fs, to) /\ (config.no_clobber \/ ~rm.ok)
           THEN /\ wrk' = [wrk EXCEPT ![w].pc = "err",
                                      ![w].why = IF config.no_clobber
                                                 THEN "DestinationExists" ELSE "io"]
                /\ UNCHANGED <<fs, modified>>
           ELSE /\ fs' = mk.fs
                /\ modified' = IF Exists(fs, to) \/ mk.ok
                               THEN modified \cup {to} ELSE modified
                /\ wrk' = IF mk.ok THEN NextOp(w)
                          ELSE [wrk EXCEPT ![w].pc = "err", ![w].why = "io"]
    /\ UNCHANGED <<config, env, input, walker, ops, queue, hist, sink, observerRx,
                   joined, result>>

\* ---------------------------------------------------------------- copy_all
\* for handle in joins: handle.join()??, an Err returns at once.
Join ==
    /\ result = "none"
    /\ joined < NumWorkers
    /\ wrk[joined + 1].pc \in {"ok", "err"}
    /\ IF wrk[joined + 1].pc = "err"
       THEN result' = "err" /\ joined' = joined
       ELSE result' = result /\ joined' = joined + 1
    /\ UNCHANGED <<config, env, input, fs, modified, walker, ops, queue, wrk, hist,
                   sink, observerRx>>

\* Ok(()) after the last join; the walker's handle is never joined.
Return ==
    /\ result = "none"
    /\ joined = NumWorkers
    /\ result' = "ok"
    /\ UNCHANGED <<config, env, input, fs, modified, walker, ops, queue, wrk, hist,
                   sink, observerRx, joined>>

\* ---------------------------------------------------------------- observer
\* The observer drops the receiver it took from rx_channel() during the copy.
ObserverDrop ==
    /\ observerRx
    /\ result = "none"
    /\ observerRx' = FALSE
    /\ UNCHANGED <<config, env, input, fs, modified, walker, ops, queue, wrk, hist,
                   sink, joined, result>>

Next ==
    \/ WalkerSource
    \/ WalkerEntry
    \/ WalkerFile2
    \/ WalkerReturn
    \/ \E w \in Workers : WorkerRecv(w)
    \/ \E w \in Workers : WorkerEnd(w)
    \/ \E w \in Workers : CopyNew(w)
    \/ \E w \in Workers : CopyFile(w)
    \/ \E w \in Workers : CopySparse(w)
    \/ \E w \in Workers : CopyBytes(w)
    \/ \E w \in Workers : CopyFail(w)
    \/ \E w \in Workers : DoLink(w)
    \/ \E w \in Workers : DoSpecial(w)
    \/ Join
    \/ Return
    \/ ObserverDrop

Spec == Init /\ [][Next]_vars

\* ---------------------------------------------------------------- copy_single
\* copy_single(source, dest, stats) runs on the caller's thread, modelled as
\* worker 1 with the one operation Single; no walker and no queue take part.
Single == <<1, 1>>

SingleInputs ==
    { Input(<<s>>, f) :
        s \in {SrcFileA, SrcFileB, SrcSymlink, SrcDir, SrcFifo, SrcBlock},
        f \in {NoDest, EmptyDest, NoDest @@ (Dest :> "file")} }

SingleInit ==
    /\ config \in Configs
    /\ env \in Envs
    /\ input \in SingleInputs
    /\ Start

\* The match on the source's file type: a regular file goes on to
\* CopyHandle::new, every other arm is finished here.
SingleStart ==
    /\ result = "none"
    /\ ops = <<>>
    /\ LET kind == FileOf(Single).kind
           rm == RemoveFile(fs, Dest)
           f1 == IF Exists(fs, Dest) THEN rm.fs ELSE fs
           mk == CopyNode(f1, Dest)
       IN  CASE kind = "File" ->
                  /\ wrk' = [wrk EXCEPT ![1].op = Single, ![1].pc = "new"]
                  /\ UNCHANGED <<fs, modified, result>>
             [] kind = "Symlink" ->
                  /\ \E k \in {"link", "dlink"} :
                       LET r == Symlink(fs, Dest, k)
                       IN  /\ fs' = r.fs
                           /\ modified' = IF r.ok THEN modified \cup {Dest}
                                           ELSE modified
                           /\ r.ok \/ k = "link"
                  /\ result' = "ok"
                  /\ wrk' = [wrk EXCEPT ![1].op = Single]
             [] kind \in {"Socket", "Char", "Fifo"} ->
                  IF Exists(fs, Dest) /\ (config.no_clobber \/ ~rm.ok)
                  THEN /\ result' = "err"
                       /\ wrk' = [wrk EXCEPT ![1].op = Single]
                       /\ UNCHANGED <<fs, modified>>
                  ELSE /\ fs' = mk.fs
                       /\ modified' = IF Exists(fs, Dest) \/ mk.ok
                                       THEN modified \cup {Dest} ELSE modified
                       /\ result' = IF mk.ok THEN "ok" ELSE "err"
                       /\ wrk' = [wrk EXCEPT ![1].op = Single]
             [] OTHER ->
                  /\ result' = "err"
                  /\ wrk' = [wrk EXCEPT ![1].op = Single]
                  /\ UNCHANGED <<fs, modified>>
    /\ ops' = Put(ops, Single, [kind |-> OpKind(FileOf(Single).kind), to |-> Dest])
    /\ hist' = Put(hist, Single, NoHist)
    /\ UNCHANGED <<config, env, input, walker, queue, sink, observerRx, joined>>

\* CopyHandle::new(..)? or copy_file(..)? returned Err: copy_single returns it.
SingleFail ==
    /\ result = "none"
    /\ wrk[1].pc = "fail"
    /\ wrk' = [wrk EXCEPT ![1].pc = "err", ![1].why = hist[Single].res]
    /\ result' = "err"
    /\ UNCHANGED <<config, env, input, fs, modified, walker, ops, queue, hist, sink,
                   observerRx, joined>>

\* copy_file returned Ok: copy_single returns Ok(()).
SingleReturn ==
    /\ result = "none"
    /\ ops # <<>>
    /\ wrk[1].pc = "recv"
    /\ result' = "ok"
    /\ UNCHANGED <<config, env, input, fs, modified, walker, ops, queue, wrk, hist,
                   sink, observerRx, joined>>

SingleNext ==
    \/ SingleStart
    \/ CopyNew(1)
    \/ CopyFile(1)
    \/ CopySparse(1)
    \/ CopyBytes(1)
    \/ SingleFail
    \/ SingleReturn

SingleSpec == SingleInit /\ [][SingleNext]_vars

\* The walker thread, a worker thread and the thread calling copy_all: the
\* operating system keeps giving each a turn while it can take a step.
WalkerStep == WalkerSource \/ WalkerEntry \/ WalkerFile2 \/ WalkerReturn

WorkerStep(w) ==
    \/ WorkerRecv(w) \/ WorkerEnd(w)
    \/ CopyNew(w) \/ CopyFile(w) \/ CopySparse(w) \/ CopyBytes(w) \/ CopyFail(w)
    \/ DoLink(w) \/ DoSpecial(w)

CallerStep == Join \/ Return

Fairness ==
    /\ WF_vars(WalkerStep)
    /\ \A w \in Workers : WF_vars(WorkerStep(w))
    /\ WF_vars(CallerStep)

\* The runs checked for termination: two trees holding every kind of entry,
\* and a file whose destination exists followed by a fifo, with and without
\* no_clobber, so that the walker ends both ways.
FairInit ==
    /\ \E nc \in BOOLEAN, pf \in BOOLEAN, rl \in {"Always", "Auto", "Never"} :
          LET s == Setup(nc, FALSE, rl, FALSE, TRUE, FALSE, pf)
          IN  config = s.config /\ env = s.env
    /\ input \in { Input(<<SrcLinks>>, NoDest),
                    Input(<<SrcMixed>>, EmptyDest),
                    Input(<<SrcFileA, SrcFifo>>, EmptyDest @@ (<<"d", "a">> :> "file")) }
    /\ Start

FairSpec == FairInit /\ [][Next]_vars /\ Fairness

\* ---------------------------------------------------------------- properties
Tags == DOMAIN ops

Copies == {t \in Tags : ops[t].kind = "Copy"}

Size(t) == Len(FileOf(t).data)

\* Updates of one type that the sink put on the observer's queue for tag t.
Sent(type, t) ==
    {i \in 1..Len(sink.chan) : sink.chan[i].type = type /\ sink.chan[i].tag = t}

Forwarded(t) == Cardinality(Sent("Copied", t))

CeilDiv(n, d) == (n + d - 1) \div d

\* Every entry of every source that passes the ignore rules.
Entries ==
    UNION {{<<s, e>> : e \in 1..Len(Walk(input.sources[s]))} : s \in 1..Len(input.sources)}

Accepted(se) == Walk(input.sources[se[1]])[se[2]].kind # "Other"

\* C1: copy_all returns success only if the walker completed without error
\* and every worker returned success.
C1_SuccessNeedsWalker ==
    result = "ok" => walker.pc = "ok" /\ \A w \in Workers : wrk[w].pc = "ok"

\* C2: whenever copy_all returns success, every accepted, non-ignored entry of
\* every source has an entry at its path under the target base, and nothing
\* but the walked paths (and the directories leading to them) was created.
C2_SuccessCopiesAll ==
    result = "ok" =>
        /\ \A se \in Entries : Accepted(se) =>
              /\ se[1] <= Len(walker.bases)
              /\ TargetAt(se[1], se[2]) \in DOMAIN fs
        /\ \A p \in modified :
              \E se \in Entries :
                  /\ se[1] <= Len(walker.bases)
                  /\ p \in Prefixes(TargetAt(se[1], se[2]))

\* C3: with no_clobber, when the destination of a walked entry exists the
\* walker sends Error(DestinationExists) and copy_all fails.
C3_NoClobberFails ==
    (config.no_clobber /\ walker.pc = "err" /\ walker.why = "EarlyShutdown") =>
        /\ Sent("Error", <<walker.src, walker.ent>>) # {}
        /\ result # "ok"

\* C4: with no_clobber, a destination path that had an entry before copy_all
\* started is never created, truncated, removed or written, and no Copy or
\* Special operation naming it is ever enqueued.
C4_NoClobberKeepsExisting ==
    config.no_clobber =>
        /\ \A p \in DOMAIN input.fs0 : p \notin modified
        /\ \A t \in Tags :
              ops[t].kind \in {"Copy", "Special"} => ops[t].to \notin DOMAIN input.fs0

\* C5: once the observer has dropped its receive endpoint, the next send on
\* the buffering sink fails: nothing more is put on the observer's queue.
C5_DropFailsSend ==
    [][~observerRx => sink'.chan = sink.chan]_vars

C7_SumIsLen ==
    \A t \in Copies : hist[t].res = "ok" => hist[t].sum = Size(t)

\* C7 amended: the sum is metadata.len() on the dense path, the bytes of the
\* data runs on the sparse path, and zero after a reflink.
C7_SumByStrategy ==
    \A t \in Copies : hist[t].res = "ok" =>
        hist[t].sum = CASE hist[t].path = "dense" -> Size(t)
                        [] hist[t].path = "sparse" -> DataBytes(FileOf(t).data)
                        [] OTHER -> 0

C7_Witness ==
    /\ \E t \in Copies :
          hist[t].res = "ok" /\ hist[t].path = "dense" /\ hist[t].short
    /\ \E t \in Copies :
          hist[t].res = "ok" /\ hist[t].path = "sparse" /\ hist[t].sum < Size(t)

InBounds(t) ==
    /\ Size(t) \div BlockSize <= Forwarded(t)
    /\ Forwarded(t) <= CeilDiv(Size(t), BlockSize) + 1

\* C8 as stated: for every byte-copied file of size n, dense or sparse, the
\* Copied updates forwarded for it number between floor(n / block_size) and
\* ceil(n / block_size) + 1.
C8_ForwardedBounds ==
    \A t \in Copies :
        (hist[t].res = "ok" /\ hist[t].path \in {"dense", "sparse"}) => InBounds(t)

\* C8 amended: the bounds hold for a file copied on the dense path whose
\* byte-copy calls each transferred the full count requested.
C8_ForwardedBoundsDense ==
    \A t \in Copies :
        (hist[t].res = "ok" /\ hist[t].path = "dense" /\ ~hist[t].short) => InBounds(t)

C8_Witness ==
    \E t \in Copies :
        /\ hist[t].res = "ok" /\ hist[t].path = "dense" /\ ~hist[t].short
        /\ Size(t) > BlockSize
        /\ sink.sent > Size(t)
        /\ Forwarded(t) < hist[t].calls

\* C9: in mode Always, when reflink reports that the filesystem declined,
\* copy_file fails with ReflinkFailed, makes no byte-copy call and sends no
\* Copied update for the file.
C9_AlwaysNoFallback ==
    \A t \in Copies :
        (config.reflink = "Always" /\ hist[t].declined) =>
            /\ hist[t].res = "ReflinkFailed"
            /\ hist[t].calls = 0
            /\ hist[t].sum = 0
            /\ Forwarded(t) = 0

C9_Witness ==
    \E t \in Copies :
        /\ config.reflink = "Always" /\ hist[t].declined
        /\ \E w \in Workers : wrk[w].pc = "err" /\ wrk[w].op = t

\* C10: for every regular file the walker emits, exactly one Size update is
\* sent, and it is on the progress channel before any Copied update of the
\* copy of that file.
C10_SizeFirst ==
    \A t \in Copies :
        /\ Cardinality(Sent("Size", t)) = 1
        /\ \A i \in Sent("Copied", t) : \E j \in Sent("Size", t) : j < i

C10_Witness ==
    \E t \in Copies : Forwarded(t) > 0 /\ hist[t].res = "ok"

AllWorkersEnded == \A w \in Workers : wrk[w].pc \in {"ok", "err"}

\* C11: when every byte-copy call transfers at least one byte and every thread
\* keeps being scheduled, the walker's end closes the work queue, so that all
\* workers eventually terminate and copy_all eventually returns.
C11_Terminates ==
    ~env.zero => <>(AllWorkersEnded /\ result # "none")

\* copy_all has returned after a walker error, with every worker terminated.
C11_Witness ==
    /\ ~env.zero
    /\ walker.pc = "err"
    /\ AllWorkersEnded
    /\ result # "none"
    /\ \E t \in Copies : hist[t].calls > 1

\* C12: once copy_file_bytes has returned zero before the target length was
\* reached, the copy_bytes loop has stopped and the copy has failed with
\* ShortRead.
C12_ZeroIsShortRead ==
    \A t \in DOMAIN hist : hist[t].zeros > 0 => hist[t].res = "ShortRead"

\* C13: a worker that has terminated because an operation failed has sent an
\* Error update for that operation, and copy_all does not return success.
C13_ErrorSentBeforeExit ==
    \A w \in Workers :
        wrk[w].pc = "err" => Sent("Error", wrk[w].op) # {} /\ result # "ok"

\* Positions on the observer's queue holding a Copied update.
ForwardedCopied == {i \in 1..Len(sink.chan) : sink.chan[i].type = "Copied"}

\* C14: with every Copied(bytes) at most block_size and the sends of the
\* walker and the workers interleaved in any order, the Copied updates on the
\* observer's queue number floor(total bytes / block_size), one per boundary
\* crossed, and every update that is not Copied is on the queue.
C14_OnePerBoundary ==
    /\ \A i \in ForwardedCopied : sink.chan[i].n <= BlockSize
    /\ Cardinality(ForwardedCopied) = sink.sent \div BlockSize
    /\ Len(sink.chan) - Cardinality(ForwardedCopied) = sink.other

\* Two workers are inside their copy loops, both have sent Copied updates,
\* at least two boundaries were crossed and some update was held back.
C14_Witness ==
    /\ \E v, w \in Workers :
          /\ v # w
          /\ wrk[v].pc \in {"bytes", "sparse"} /\ hist[Cur(v)].calls > 0
          /\ wrk[w].pc \in {"bytes", "sparse"} /\ hist[Cur(w)].calls > 0
          /\ hist[Cur(v)].calls + hist[Cur(w)].calls > Cardinality(ForwardedCopied)
    /\ sink.sent \div BlockSize >= 2
    /\ sink.other > 0

RECURSIVE CopiedBytes(_)
\* The byte total an observer adds up from the Copied updates of a queue.
CopiedBytes(chan) ==
    IF chan = <<>> THEN 0
    ELSE (IF Head(chan).type = "Copied" THEN Head(chan).n ELSE 0)
         + CopiedBytes(Tail(chan))

\* C15: the byte counts of the forwarded Copied updates add up to at most the
\* cumulative count of bytes passed to send, and to more than that count
\* less block_size.
C15_TotalWithinBlock ==
    /\ CopiedBytes(sink.chan) <= sink.sent
    /\ sink.sent - CopiedBytes(sink.chan) < BlockSize

\* C16: once a worker has terminated with an error, no other worker takes an
\* operation from the work queue: its receive sees the end of the stream.
C16_ErrorClosesQueue ==
    [][(\E v \in Workers : wrk[v].pc = "err")
         => \A w \in Workers : ~(wrk[w].pc = "recv" /\ wrk'[w].pc \notin {"recv", "ok"})]_vars

\* C19: when copy_all has returned, the walker and all workers have
\* terminated.
C19_ReturnedMeansStopped ==
    result # "none" => ~WalkerRunning /\ AllWorkersEnded

\* C17: whenever copy_file has returned, with success or with an error, the
\* handle was released with finalization run: the permission copy was
\* attempted unless no_perms, and the destination was synced if fsync is set,
\* also after a failed permission copy.
C17_ReleaseFinalises ==
    \A t \in DOMAIN hist :
        /\ hist[t].res \notin {"none", "io"} => hist[t].dropped
        /\ hist[t].dropped =>
              /\ ~config.no_perms => hist[t].perms \in {"ok", "failed"}
              /\ config.fsync => hist[t].synced

\* C18: copy_single on a regular file never attempts a reflink.
C18_SingleNeverReflinks ==
    \A t \in DOMAIN hist : ~hist[t].tried

\* C18 as the code has it: once copy_single's copy_file is past try_reflink,
\* the reflink call was made exactly when the mode is Always or Auto, as on
\* the worker path.
C18_SingleReflinksByMode ==
    \A t \in DOMAIN hist :
        hist[t].path # "none" \/ hist[t].res \notin {"none", "io"}
            => (hist[t].tried <=> config.reflink \in {"Always", "Auto"})

\* copy_single has returned Ok for a regular file whose reflink worked.
C18_Witness ==
    /\ result = "ok"
    /\ Single \in Copies
    /\ hist[Single].tried
    /\ hist[Single].path = "reflink"

\* C20: the target base the walker chose for each source, and its no_clobber
\* verdict, are those that the file system before the call gives: they do not
\* depend on the interleaving, nor on what the call itself has created.
C20_TargetsFromInitialState ==
    /\ \A s \in 1..Len(walker.bases) :
          walker.bases[s] = target_base(input.fs0, config, input.sources[s])
    /\ walker.why = "EarlyShutdown" => NoClobberHit(config, input.fs0, Target)

====
